---- MODULE Spec2Model ----
(***************************************************************************)
(* One call of velocity_stack(params) from molsim/functions.py.            *)
(*                                                                         *)
(* Encoding.  A Python array is a function on 0..n-1, so that indices and  *)
(* half-open slices arr[x:y] read as in the source.  A number is an exact  *)
(* fraction <<n, d>> in lowest terms with d > 0; a missing value (np.nan)  *)
(* is the empty tuple.  Standard deviations only occur squared or inside   *)
(* comparisons of non-negative quantities, so the model carries rms^2.     *)
(* numpy slices are views: a chunk's int_obs / int_sim is a window into    *)
(* the caller's int_arr / int_sim buffer, so the chunk record stores the   *)
(* window bounds and reads or writes the buffer through them.              *)
(* Frequencies are integers and velocities are measured in a unit in which *)
(* the speed of light is ckm; ckm is odd, so no frequency looked up by     *)
(* find_nearest is ever equidistant from two channels.                     *)
(***************************************************************************)
EXTENDS Integers, Sequences, FiniteSets, TLC

VARIABLES pc, params, int_arr, int_sim, loc, trace, peak_indices, peak_ints,
          obs_chunks, pos, ran, velocity_avg, interped_ints, interped_rms,
          interped_sim_ints, rms_arr, int_avg, int_sim_avg, stacked_spectrum,
          raised

vars == <<pc, params, int_arr, int_sim, loc, trace, peak_indices, peak_ints,
          obs_chunks, pos, ran, velocity_avg, interped_ints, interped_rms,
          interped_sim_ints, rms_arr, int_avg, int_sim_avg, stacked_spectrum,
          raised>>

(***************************************************************************)
(* Bounds of the model and constants of the program.                       *)
(***************************************************************************)
NObs == 4
MaxPeaks == 2
ckm == 11
EdgeTrim == 5
DefaultFlagSigma == 5
DefaultKeep == 3

NSim == NObs + 1
F0 == ckm - 1

\* The observed and the simulated frequency axes: the simulated axis has one
\* channel more, so its last channel lies outside the observed coverage.
freq_arr == [k \in 0..(NObs - 1) |-> F0 + k]
freq_sim == [k \in 0..(NSim - 1) |-> F0 + k]

ObsValues == {1, 2, 4}

(***************************************************************************)
(* Exact arithmetic with missing values.                                   *)
(***************************************************************************)
NaN == <<>>
IsNaN(x) == x = NaN

Abs(n) == IF n < 0 THEN -n ELSE n

RECURSIVE GCD(_, _)
GCD(a, b) == IF b = 0 THEN a ELSE GCD(b, a % b)

Norm(n, d) ==
    LET g == GCD(Abs(n), Abs(d))
        s == IF d < 0 THEN -1 ELSE 1
    IN  <<(s * n) \div g, (s * d) \div g>>

F(v) == <<v, 1>>
Zero == F(0)

FAdd(x, y) ==
    IF IsNaN(x) \/ IsNaN(y) THEN NaN
    ELSE LET g == GCD(x[2], y[2])
         IN  Norm(x[1] * (y[2] \div g) + y[1] * (x[2] \div g), (x[2] \div g) * y[2])

FNeg(x) == IF IsNaN(x) THEN NaN ELSE <<-x[1], x[2]>>
FSub(x, y) == FAdd(x, FNeg(y))

FMul(x, y) ==
    IF IsNaN(x) \/ IsNaN(y) THEN NaN
    ELSE LET a == Norm(x[1], y[2])
             b == Norm(y[1], x[2])
         IN  Norm(a[1] * b[1], a[2] * b[2])

\* IEEE division: 0/0 and anything involving nan is nan.  A non-zero value
\* over zero would be an infinity, which is written <<s, 0>>.
FDiv(x, y) ==
    IF IsNaN(x) \/ IsNaN(y) THEN NaN
    ELSE IF y[1] = 0 THEN (IF x[1] = 0 THEN NaN ELSE <<IF x[1] < 0 THEN -1 ELSE 1, 0>>)
    ELSE FMul(x, Norm(y[2], y[1]))

\* x > y as IEEE compares: false when either side is nan.
FGt(x, y) == ~IsNaN(x) /\ ~IsNaN(y) /\ x[1] * y[2] > y[1] * x[2]

Len0(arr) == Cardinality(DOMAIN arr)

\* arr[x:y] of a Python array.
Slice(arr, x, y) == [k \in 0..(y - x - 1) |-> arr[x + k]]

RECURSIVE SumUpTo(_, _)
SumUpTo(arr, n) == IF n = 0 THEN Zero ELSE FAdd(SumUpTo(arr, n - 1), arr[n - 1])

\* np.nansum over a one-dimensional array: missing values count as zero.
NanSum(arr) ==
    SumUpTo([k \in DOMAIN arr |-> IF IsNaN(arr[k]) THEN Zero ELSE arr[k]], Len0(arr))

(***************************************************************************)
(* The primitives velocity_stack imports from molsim.utils and             *)
(* molsim.stats.                                                           *)
(***************************************************************************)

\* find_nearest(arr, val) for val = tn/td (td > 0): the index of the element
\* of arr closest to val, 0 on an empty array.
find_nearest(arr, tn, td) ==
    IF Len0(arr) = 0 THEN 0
    ELSE LET Dist(i) == Abs(arr[i] * td - tn)
         IN  CHOOSE i \in DOMAIN arr :
                 \A j \in DOMAIN arr : Dist(i) < Dist(j) \/ (Dist(i) = Dist(j) /\ i <= j)

\* get_rms(intensity), squared: the mean square of the samples that are not
\* missing; nan when there is none.
get_rms(arr) ==
    LET present == {k \in DOMAIN arr : ~IsNaN(arr[k])}
        sq == [k \in DOMAIN arr |-> IF IsNaN(arr[k]) THEN Zero ELSE FMul(arr[k], arr[k])]
    IN  IF present = {} THEN NaN
        ELSE FDiv(SumUpTo(sq, Len0(arr)), F(Cardinality(present)))

\* The runs of consecutive missing samples _find_nans(arr) reports, as the set
\* of the first indices of the runs.
find_nans(arr) ==
    {k \in DOMAIN arr : IsNaN(arr[k]) /\ (k = 0 \/ ~IsNaN(arr[k - 1]))}

\* find_peaks(freq_sim, int_sim, ...): the candidate lists it may return, as
\* ascending index lists into freq_sim of at most MaxPeaks entries.
find_peaks ==
    LET Asc(s) == \A i \in 1..(Len(s) - 1) : s[i] < s[i + 1]
    IN  {s \in UNION {[1..n -> DOMAIN freq_sim] : n \in 0..MaxPeaks} : Asc(s)}

\* int(round(n / 2)) as Python 3 rounds: halves go to the even neighbour.
RoundHalf(n) ==
    LET k == n \div 2
    IN  IF n % 2 = 0 THEN k ELSE IF k % 2 = 0 THEN k ELSE k + 1

(***************************************************************************)
(* The params catalog.  keys is the set of options the caller supplied;    *)
(* the value fields of options that are not supplied are never read.       *)
(* v_res is a fraction; blank_lines and flag_lines, when supplied, are     *)
(* True.                                                                   *)
(***************************************************************************)
Required == {"selection", "freq_arr", "int_arr", "freq_sim", "int_sim", "dV", "vlsr",
             "vel_width"}

Catalog(keys, selection, vel_width, drops) ==
    [keys |-> keys, selection |-> selection, dV |-> 2, dV_ext |-> 1,
     vel_width |-> vel_width, v_res |-> Norm(vel_width, 8), drops |-> drops,
     blank_keep_range |-> <<-1, 1>>, flag_sigma |-> 1]

\* int_sim alternates between the two simulated levels.
SimPattern(phase) == [k \in DOMAIN freq_sim |-> F(1 + ((k + phase) % 2))]

\* The observed intensities.  find_nearest returns at most the last index and
\* a slice excludes its upper bound, so the last channel is in no window and
\* one value stands for it.
ObsArrays ==
    {a \in [DOMAIN freq_arr -> {F(v) : v \in ObsValues}] : a[NObs - 1] = F(1)}

\* The callers that differ in which options they supply.
InitConfig ==
    /\ \E missing \in {{}} \cup {{r} : r \in Required},
          opt \in SUBSET {"res_inp", "dV_ext", "v_res", "drops"},
          selection \in {"peaks", "lines", "other"} :
          params = Catalog((Required \ missing) \cup opt
                             \cup {"blank_lines", "blank_keep_range", "flag_lines",
                                   "flag_sigma"},
                           selection, 2, {})
    /\ int_arr = [k \in DOMAIN freq_arr |-> F(IF k = 0 THEN 4 ELSE IF k = 1 THEN 1 ELSE 2)]
    /\ int_sim = SimPattern(0)

\* The callers that differ in the cleaning options, the selection and drops.
InitOptions ==
    /\ \E opt \in SUBSET {"blank_lines", "blank_keep_range", "flag_lines", "flag_sigma"},
          selection \in {"peaks", "lines"},
          drops \in SUBSET (0..(MaxPeaks - 1)) :
          params = Catalog(Required \cup {"res_inp", "dV_ext", "v_res", "drops"} \cup opt,
                           selection, 2, drops)
    /\ int_arr \in {a \in ObsArrays : a[0] \in {F(1), F(4)} /\ \A k \in DOMAIN a : k > 0 => a[k] = F(1)}
    /\ int_sim = SimPattern(0)

\* The callers that differ in the observed data and the window width.
InitData ==
    /\ \E opt \in SUBSET {"blank_lines", "flag_lines"},
          vel_width \in {1, 2} :
          params = Catalog(Required \cup {"res_inp", "dV_ext", "v_res", "drops",
                                          "blank_keep_range", "flag_sigma"} \cup opt,
                           "peaks", vel_width, {})
    /\ int_arr \in ObsArrays
    /\ int_sim = SimPattern(1)

NoChunks == [k \in {} |-> 0]

Init ==
    /\ InitConfig \/ InitOptions \/ InitData
    /\ pc = "unpack"
    /\ raised = "none"
    /\ loc = [v_res |-> NaN]
    /\ trace = {}
    /\ peak_indices = <<>>
    /\ peak_ints = NoChunks
    /\ obs_chunks = NoChunks
    /\ pos = 0
    /\ ran = NoChunks
    /\ velocity_avg = NoChunks
    /\ interped_ints = <<>>
    /\ interped_rms = <<>>
    /\ interped_sim_ints = <<>>
    /\ rms_arr = NoChunks
    /\ int_avg = NoChunks
    /\ int_sim_avg = NoChunks
    /\ stacked_spectrum = [name |-> "stack"]

Has(key) == key \in params.keys

(***************************************************************************)
(* Lines 135-150: the options are unpacked into locals, one line after the *)
(* other; params[key] of an absent key raises KeyError.                    *)
(***************************************************************************)
\* Line 145.
UnpackVRes ==
    IF Has("drops") THEN params.v_res ELSE Norm(params.dV, 10)

\* The first of lines 136-144 that raises, 0 when none does.
UnpackFailsAt ==
    IF ~Has("freq_arr") THEN 136
    ELSE IF ~Has("int_arr") THEN 137
    ELSE IF ~Has("freq_sim") THEN 138
    ELSE IF ~Has("int_sim") THEN 139
    ELSE IF ~Has("dV") THEN 141
    ELSE IF ~Has("vlsr") THEN 143
    ELSE IF ~Has("vel_width") THEN 144
    ELSE IF Has("drops") /\ ~Has("v_res") THEN 145
    ELSE 0

Unpack ==
    /\ pc = "unpack"
    /\ trace' = IF ~Has("res_inp") /\ (UnpackFailsAt = 0 \/ UnpackFailsAt > 140)
                THEN trace \cup {"_get_res"} ELSE trace
    /\ IF UnpackFailsAt # 0
       THEN /\ pc' = "raised"
            /\ raised' = "KeyError"
            /\ loc' = loc
       ELSE /\ pc' = "select"
            /\ raised' = raised
            /\ loc' = [dV |-> params.dV,
                       dV_ext |-> IF Has("dV_ext") THEN F(params.dV_ext) ELSE NaN,
                       vel_width |-> params.vel_width,
                       v_res |-> UnpackVRes,
                       drops |-> IF Has("drops") THEN params.drops ELSE {},
                       blank_lines |-> Has("blank_lines"),
                       blank_keep_range |-> IF Has("blank_keep_range")
                                            THEN params.blank_keep_range
                                            ELSE <<-DefaultKeep * params.dV,
                                                   DefaultKeep * params.dV>>,
                       flag_lines |-> Has("flag_lines"),
                       flag_sigma |-> IF Has("flag_sigma") THEN params.flag_sigma
                                      ELSE DefaultFlagSigma]
    /\ UNCHANGED <<params, int_arr, int_sim, peak_indices, peak_ints, obs_chunks, pos,
                   ran, velocity_avg, interped_ints, interped_rms, interped_sim_ints,
                   rms_arr, int_avg, int_sim_avg, stacked_spectrum>>

(***************************************************************************)
(* Lines 153-167: the candidate features and their reference intensities.  *)
(***************************************************************************)
\* Line 159: int_sim[peak_indices].
PeakInts(peaks) == [c \in 0..(Len(peaks) - 1) |-> int_sim[peaks[c + 1]]]

\* Lines 164-167: the simulated intensity summed over dV*dV_ext around a peak.
LineInts(peaks) ==
    [c \in 0..(Len(peaks) - 1) |->
        LET x == freq_sim[peaks[c + 1]]
            w == loc.dV * loc.dV_ext[1]
            ll == find_nearest(freq_sim, x * (2 * ckm - w), 2 * ckm)
            ul == find_nearest(freq_sim, x * (2 * ckm + w), 2 * ckm)
        IN  NanSum(Slice(int_sim, ll, ul))]

SelectPeaks ==
    /\ pc = "select"
    /\ Has("selection") /\ params.selection = "peaks"
    /\ \E peaks \in find_peaks :
          /\ peak_indices' = peaks
          /\ peak_ints' = PeakInts(peaks)
    /\ trace' = trace \cup {"find_peaks"}
    /\ pc' = "extract"
    /\ UNCHANGED <<params, int_arr, int_sim, loc, obs_chunks, pos, ran, velocity_avg,
                   interped_ints, interped_rms, interped_sim_ints, rms_arr, int_avg,
                   int_sim_avg, stacked_spectrum, raised>>

SelectLines ==
    /\ pc = "select"
    /\ Has("selection") /\ params.selection = "lines"
    /\ ~IsNaN(loc.dV_ext)
    /\ \E peaks \in find_peaks :
          /\ peak_indices' = peaks
          /\ peak_ints' = LineInts(peaks)
    /\ trace' = trace \cup {"find_peaks"}
    /\ pc' = "extract"
    /\ UNCHANGED <<params, int_arr, int_sim, loc, obs_chunks, pos, ran, velocity_avg,
                   interped_ints, interped_rms, interped_sim_ints, rms_arr, int_avg,
                   int_sim_avg, stacked_spectrum, raised>>

\* Line 156 raises KeyError without a selection; line 162 raises TypeError on
\* dV*None; with any other selection neither branch runs and line 170 raises
\* NameError on peak_freqs.
SelectRaises ==
    /\ pc = "select"
    /\ \/ ~Has("selection") /\ raised' = "KeyError"
       \/ Has("selection") /\ params.selection = "lines" /\ IsNaN(loc.dV_ext)
            /\ raised' = "TypeError"
       \/ Has("selection") /\ params.selection \notin {"peaks", "lines"}
            /\ raised' = "NameError"
    /\ pc' = "raised"
    /\ UNCHANGED <<params, int_arr, int_sim, loc, trace, peak_indices, peak_ints,
                   obs_chunks, pos, ran, velocity_avg, interped_ints, interped_rms,
                   interped_sim_ints, rms_arr, int_avg, int_sim_avg, stacked_spectrum>>

(***************************************************************************)
(* Lines 91-131 and 170-176: the chunks.  x:y is the window of int_obs in  *)
(* int_arr and a:b the window of int_sim in the simulated buffer.  Fields  *)
(* a later stage assigns are <<>> until they exist and <<value>> after.    *)
(***************************************************************************)
None == <<>>
Some(v) == <<v>>

freq_obs_of(c) == Slice(freq_arr, c.x, c.y)
freq_sim_of(c) == Slice(freq_sim, c.a, c.b)
int_obs_of(buf, c) == Slice(buf, c.x, c.y)
int_sim_of(buf, c) == Slice(buf, c.a, c.b)

\* Line 114.
set_cfreq(freq_obs) == freq_obs[RoundHalf(Len0(freq_obs))]

\* Lines 121-131: (freq - cfreq)*ckm/cfreq.
set_velocity(freqs, cfreq) == [k \in DOMAIN freqs |-> Norm((freqs[k] - cfreq) * ckm, cfreq)]

\* Lines 171-174 for the candidate at frequency x.
Window(freqs, x) ==
    <<find_nearest(freqs, x * (ckm - loc.vel_width), ckm),
      find_nearest(freqs, x * (ckm + loc.vel_width), ckm)>>

\* Lines 93-111.
ObsChunk(x, y, a, b, peak_int, id) ==
    [x |-> x, y |-> y, a |-> a, b |-> b, peak_int |-> peak_int, id |-> id,
     flag |-> FALSE,
     rms |-> get_rms(Slice(int_arr, x, y)),
     cfreq |-> set_cfreq(Slice(freq_arr, x, y)),
     weight |-> None, int_weighted |-> None, int_sim_weighted |-> None,
     int_samp |-> None, int_sim_samp |-> None]

Candidates == 0..(Len(peak_indices) - 1)
ObsWindow(c) == Window(freq_arr, freq_sim[peak_indices[c + 1]])
SimWindow(c) == Window(freq_sim, freq_sim[peak_indices[c + 1]])

\* freq_arr[x:y] is empty: set_cfreq then indexes an empty array.
EmptyWindow(c) == ObsWindow(c)[2] <= ObsWindow(c)[1]

Extract ==
    /\ pc = "extract"
    /\ trace' = IF Candidates = {} THEN trace ELSE trace \cup {"ObsChunk"}
    /\ IF \E c \in Candidates : EmptyWindow(c)
       THEN /\ pc' = "raised"
            /\ raised' = "IndexError"
            /\ UNCHANGED <<obs_chunks, ran>>
       ELSE /\ pc' = IF Candidates = {} THEN "weight" ELSE "clean"
            /\ raised' = raised
            /\ obs_chunks' = [c \in Candidates |->
                                ObsChunk(ObsWindow(c)[1], ObsWindow(c)[2],
                                         SimWindow(c)[1], SimWindow(c)[2],
                                         peak_ints[c], c)]
            /\ ran' = [c \in Candidates |-> [passes |-> {}, rms |-> NaN]]
    /\ UNCHANGED <<params, int_arr, int_sim, loc, peak_indices, peak_ints, pos,
                   velocity_avg, interped_ints, interped_rms, interped_sim_ints,
                   rms_arr, int_avg, int_sim_avg, stacked_spectrum>>

(***************************************************************************)
(* Lines 181-221: the flagging loop, one chunk per step.                   *)
(***************************************************************************)
\* abs(v) > flag_sigma*rms, with rms carried squared.
Exceeds(v, sigma, rms) == FGt(FMul(v, v), FMul(F(sigma * sigma), rms))

\* np.nanmax: the largest sample that is not missing, nan when all are.
NanMax(arr) ==
    LET present == {k \in DOMAIN arr : ~IsNaN(arr[k])}
    IN  IF present = {} THEN NaN
        ELSE arr[CHOOSE k \in present : \A j \in present : ~FGt(arr[j], arr[k])]

\* Line 219: np.nanmax(int_obs) > flag_sigma*rms.
FlagTest(int_obs, sigma, rms) ==
    LET m == NanMax(int_obs)
    IN  FGt(m, Zero) /\ Exceeds(m, sigma, rms)

\* Lines 196-199: the indices nearest the ends of the protected band.
KeepRange(freqs, cfreq) ==
    <<find_nearest(freqs, cfreq * (ckm - loc.blank_keep_range[2]), ckm),
      find_nearest(freqs, cfreq * (ckm - loc.blank_keep_range[1]), ckm)>>

\* Line 205, through the view x:y of the buffer.
Blanked(buf, x, y, sigma, rms) ==
    [k \in DOMAIN buf |->
        IF x <= k /\ k < y /\ Exceeds(buf[k], sigma, rms) THEN NaN ELSE buf[k]]

\* Lines 211-212, through the view of int_sim that starts at a: the samples
\* at the offsets in span become missing.
SimBlanked(buf, a, span) ==
    [k \in DOMAIN buf |-> IF (k - a) \in span THEN NaN ELSE buf[k]]

\* Lines 213-214 left out: nothing is put back.
NotRestored(buf, safe, lo, hi) == buf

\* Lines 202-203 and 213-214: buf[lo:hi] is put back from the copy taken
\* before blanking (safe is the buffer as it was then).
Restored(buf, safe, lo, hi) ==
    [k \in DOMAIN buf |-> IF lo <= k /\ k < hi THEN safe[k] ELSE buf[k]]

\* Lines 206-210 look the missing runs of int_obs up by value in int_sim, one
\* slice x:y per run; what they return depends on the data, so every union of
\* at most `runs` slices of an array of length n is possible.
SimSpans(n, runs) ==
    LET Starts(span) == {k \in span : (k - 1) \notin span}
    IN  {span \in SUBSET (0..(n - 1)) : Cardinality(Starts(span)) <= runs}

\* Line 190 without the membership test.
NeverDropped(c) == FALSE

\* Line 190.
Dropped(c) == c.id \in loc.drops

Clean ==
    /\ pc = "clean"
    /\ LET c == obs_chunks[pos]
           keep_obs == KeepRange(freq_obs_of(c), c.cfreq)
           keep_sim == KeepRange(freq_sim_of(c), c.cfreq)
           blanked == Blanked(int_arr, c.x, c.y, loc.flag_sigma, c.rms)
           runs == Cardinality(find_nans(int_obs_of(blanked, c)))
       IN  IF c.flag
           THEN UNCHANGED <<int_arr, int_sim, obs_chunks, ran>>
           ELSE IF Len0(freq_obs_of(c)) = 0 \/ Dropped(c)
           THEN /\ obs_chunks' = [obs_chunks EXCEPT ![pos].flag = TRUE]
                /\ UNCHANGED <<int_arr, int_sim, ran>>
           ELSE \E span \in IF loc.blank_lines THEN SimSpans(c.b - c.a, runs) ELSE {{}} :
                LET obs1 == IF loc.blank_lines
                            THEN Restored(blanked, int_arr, c.x + keep_obs[1],
                                          c.x + keep_obs[2])
                            ELSE int_arr
                    sim1 == IF loc.blank_lines
                            THEN Restored(SimBlanked(int_sim, c.a, span), int_sim,
                                          c.a + keep_sim[1], c.a + keep_sim[2])
                            ELSE int_sim
                    rms1 == IF loc.blank_lines THEN get_rms(int_obs_of(obs1, c)) ELSE c.rms
                    flag1 == loc.flag_lines
                               /\ FlagTest(int_obs_of(obs1, c), loc.flag_sigma, rms1)
                IN  /\ int_arr' = obs1
                    /\ int_sim' = sim1
                    /\ obs_chunks' = [obs_chunks EXCEPT ![pos].rms = rms1,
                                                        ![pos].flag = flag1]
                    /\ ran' = [ran EXCEPT ![pos] =
                                 [passes |-> (IF loc.blank_lines THEN {"blank"} ELSE {})
                                               \cup (IF loc.flag_lines THEN {"flag"} ELSE {}),
                                  rms |-> c.rms]]
    /\ pos' = pos + 1
    /\ pc' = IF pos + 1 = Len0(obs_chunks) THEN "weight" ELSE "clean"
    /\ UNCHANGED <<params, loc, trace, peak_indices, peak_ints, velocity_avg,
                   interped_ints, interped_rms, interped_sim_ints, rms_arr, int_avg,
                   int_sim_avg, stacked_spectrum, raised>>

(***************************************************************************)
(* Lines 224-230: the weights.                                             *)
(***************************************************************************)
\* max(peak_ints) of a non-empty list.
MaxOf(arr) == arr[CHOOSE k \in DOMAIN arr : \A j \in DOMAIN arr : ~FGt(arr[j], arr[k])]

\* Lines 227-228: peak_int/max_int, then divided by rms**2.
WeightOf(peak_int, max_int, rms) == FDiv(FDiv(peak_int, max_int), rms)

\* Lines 229-230: array * weight.
Scaled(arr, w) == [k \in DOMAIN arr |-> FMul(arr[k], w)]

\* The test of lines 226, 237 and 247 left out.
AlwaysSurviving(c) == TRUE

\* Lines 226, 237 and 247: the test `obs.flag is False`.
Surviving(c) == c.flag = FALSE

Weight ==
    /\ pc = "weight"
    /\ IF Len0(peak_ints) = 0
       THEN /\ pc' = "raised"
            /\ raised' = "ValueError"
            /\ UNCHANGED obs_chunks
       ELSE /\ pc' = "resample"
            /\ raised' = raised
            /\ obs_chunks' =
                 [i \in DOMAIN obs_chunks |->
                    LET c == obs_chunks[i]
                        w == WeightOf(c.peak_int, MaxOf(peak_ints), c.rms)
                    IN  IF Surviving(c)
                        THEN [c EXCEPT !.weight = Some(w),
                                       !.int_weighted = Some(Scaled(int_obs_of(int_arr, c), w)),
                                       !.int_sim_weighted =
                                           Some(Scaled(int_sim_of(int_sim, c), w))]
                        ELSE c]
    /\ UNCHANGED <<params, int_arr, int_sim, loc, trace, peak_indices, peak_ints, pos,
                   ran, velocity_avg, interped_ints, interped_rms, interped_sim_ints,
                   rms_arr, int_avg, int_sim_avg, stacked_spectrum>>

(***************************************************************************)
(* Lines 233-239: the shared velocity grid and the resampling.             *)
(***************************************************************************)
\* ceil(a/b) for fractions a >= 0, b > 0.
CeilDiv(a, b) ==
    LET q == FDiv(a, b)
    IN  (q[1] + q[2] - 1) \div q[2]

\* np.arange(start, stop, step).
arange(start, stop, step) ==
    [j \in 0..(CeilDiv(FSub(stop, start), step) - 1) |-> FAdd(start, FMul(F(j), step))]

\* np.interp(x, xp, fp, left=nan, right=nan) at one point x, xp increasing and
\* not empty: nan outside [xp[0], xp[-1]], fp[j] where x = xp[j], and the
\* straight line between the two neighbours elsewhere (nan if either is nan).
interp(x, xp, fp) ==
    LET n == Len0(xp)
    IN  IF FGt(xp[0], x) \/ FGt(x, xp[n - 1]) THEN NaN
        ELSE LET j == CHOOSE k \in DOMAIN xp :
                          /\ ~FGt(xp[k], x)
                          /\ \A m \in DOMAIN xp : ~FGt(xp[m], x) => m <= k
             IN  IF xp[j] = x THEN fp[j]
                 ELSE FAdd(fp[j],
                           FMul(FSub(fp[j + 1], fp[j]),
                                FDiv(FSub(x, xp[j]), FSub(xp[j + 1], xp[j]))))

Resampled(grid, xp, fp) == [j \in DOMAIN grid |-> interp(grid[j], xp, fp)]

Resample ==
    /\ pc = "resample"
    /\ LET grid == arange(F(-loc.vel_width), F(loc.vel_width), loc.v_res)
       IN  /\ velocity_avg' = grid
           /\ IF \E i \in DOMAIN obs_chunks :
                    Surviving(obs_chunks[i]) /\ Len0(freq_sim_of(obs_chunks[i])) = 0
              THEN \* np.interp raises on an empty array of sample points
                   /\ pc' = "raised"
                   /\ raised' = "ValueError"
                   /\ UNCHANGED obs_chunks
              ELSE /\ pc' = "accumulate"
                   /\ raised' = raised
                   /\ obs_chunks' =
                        [i \in DOMAIN obs_chunks |->
                           LET c == obs_chunks[i]
                           IN  IF Surviving(c)
                               THEN [c EXCEPT
                                       !.int_samp =
                                          Some(Resampled(grid,
                                                 set_velocity(freq_obs_of(c), c.cfreq),
                                                 c.int_weighted[1])),
                                       !.int_sim_samp =
                                          Some(Resampled(grid,
                                                 set_velocity(freq_sim_of(c), c.cfreq),
                                                 c.int_sim_weighted[1]))]
                               ELSE c]
    /\ UNCHANGED <<params, int_arr, int_sim, loc, trace, peak_indices, peak_ints, pos,
                   ran, interped_ints, interped_rms, interped_sim_ints, rms_arr, int_avg,
                   int_sim_avg, stacked_spectrum>>

(***************************************************************************)
(* Lines 242-270: the per-sample noise and the averages.                   *)
(***************************************************************************)
\* Lines 246-250: the chunks that are not flagged, in list order; each of the
\* three lists takes one entry from each of them.
RECURSIVE Collected(_)
Collected(n) ==
    IF n = 0 THEN <<>>
    ELSE IF Surviving(obs_chunks[n - 1]) THEN Append(Collected(n - 1), obs_chunks[n - 1])
    ELSE Collected(n - 1)

\* Lines 261-262 left out: every row adds its rms**2.
AlwaysCounted(ints, y, x) == TRUE

\* Lines 261-264: whether row y adds its rms**2 at sample x.
Counted(ints, y, x) == ~IsNaN(ints[y][x])

\* Lines 259-265 for the grid index x.
RECURSIVE RmsSum(_, _, _, _)
RmsSum(ints, rmss, x, n) ==
    IF n = 0 THEN Zero
    ELSE IF Counted(ints, n, x) THEN FAdd(RmsSum(ints, rmss, x, n - 1), rmss[n])
    ELSE RmsSum(ints, rmss, x, n - 1)

\* np.nansum(rows, axis=0) at x; the sum of no rows is the scalar 0.
RECURSIVE ColumnNanSum(_, _, _)
ColumnNanSum(rows, x, n) ==
    IF n = 0 THEN Zero
    ELSE FAdd(ColumnNanSum(rows, x, n - 1), IF IsNaN(rows[n][x]) THEN Zero ELSE rows[n][x])

Accumulate ==
    /\ pc = "accumulate"
    /\ LET kept == Collected(Len0(obs_chunks))
           ints == [y \in DOMAIN kept |-> kept[y].int_samp[1]]
           rmss == [y \in DOMAIN kept |-> kept[y].rms]
           sims == [y \in DOMAIN kept |-> kept[y].int_sim_samp[1]]
           sums == [x \in DOMAIN velocity_avg |-> RmsSum(ints, rmss, x, Len(rmss))]
       IN  /\ interped_ints' = ints
           /\ interped_rms' = rmss
           /\ interped_sim_ints' = sims
           /\ rms_arr' = sums
           /\ int_avg' = [x \in DOMAIN velocity_avg |->
                            FDiv(ColumnNanSum(ints, x, Len(ints)), sums[x])]
           /\ int_sim_avg' = [x \in DOMAIN velocity_avg |->
                                FDiv(ColumnNanSum(sims, x, Len(sims)), sums[x])]
    /\ pc' = "trim"
    /\ UNCHANGED <<params, int_arr, int_sim, loc, trace, peak_indices, peak_ints,
                   obs_chunks, pos, ran, velocity_avg, stacked_spectrum, raised>>

(***************************************************************************)
(* Lines 273-287: the edge channels go, the rest is divided by its own rms *)
(* and returned.  A value v over rms is written <<v, rms^2>>.              *)
(***************************************************************************)
Trimmed(arr) == Slice(arr, EdgeTrim, Len0(arr) - EdgeTrim)

\* get_rms(int_avg) as far as lines 279-280 need it: "nan" when no sample is
\* present, "zero" when every present sample is 0, "positive" otherwise.
RmsClass(arr) ==
    LET present == {k \in DOMAIN arr : ~IsNaN(arr[k])}
    IN  IF present = {} THEN "nan"
        ELSE IF \A k \in present : arr[k] = Zero THEN "zero"
        ELSE "positive"

\* v / rms_tmp: nan when either is nan, 0/0 = nan, and <<v>> stands for v
\* divided by the positive rms_tmp.
OverRms(v, class) ==
    IF IsNaN(v) \/ class = "nan" THEN NaN
    ELSE IF class = "zero" THEN FDiv(v, Zero)
    ELSE <<v>>

Finish ==
    /\ pc = "trim"
    /\ LET rms_tmp == RmsClass(Trimmed(int_avg))
           avg == Trimmed(int_avg)
           sim_avg == Trimmed(int_sim_avg)
       IN  stacked_spectrum' =
             [name |-> "stack",
              velocity |-> Trimmed(velocity_avg),
              snr |-> [x \in DOMAIN avg |-> OverRms(avg[x], rms_tmp)],
              int_sim |-> [x \in DOMAIN sim_avg |-> OverRms(sim_avg[x], rms_tmp)]]
    /\ pc' = "done"
    /\ UNCHANGED <<params, int_arr, int_sim, loc, trace, peak_indices, peak_ints,
                   obs_chunks, pos, ran, velocity_avg, interped_ints, interped_rms,
                   interped_sim_ints, rms_arr, int_avg, int_sim_avg, raised>>

Next ==
    \/ Unpack \/ SelectPeaks \/ SelectLines \/ SelectRaises \/ Extract \/ Clean
    \/ Weight \/ Resample \/ Accumulate \/ Finish

Spec == Init /\ [][Next]_vars

(***************************************************************************)
(* Properties.                                                             *)
(***************************************************************************)
Chunks == DOMAIN obs_chunks
Cleaned(i) == i \in Chunks /\ i < pos
Survivors == {i \in Chunks : ~obs_chunks[i].flag}
AfterCleaning == pc \in {"weight", "resample", "accumulate", "trim", "done"}

\* The protected ranges of chunk c, as index sets of its int_obs and int_sim.
ProtectedObs(c) ==
    LET r == KeepRange(freq_obs_of(c), c.cfreq) IN {k \in DOMAIN freq_obs_of(c) : r[1] <= k /\ k < r[2]}
ProtectedSim(c) ==
    LET r == KeepRange(freq_sim_of(c), c.cfreq) IN {k \in DOMAIN freq_sim_of(c) : r[1] <= k /\ k < r[2]}

\* C1: when every candidate chunk ends the cleaning loop flagged, the call
\* raises instead of returning a spectrum: it never returns with a chunk list
\* that is not empty and wholly flagged.
C1_AllFlaggedRaises ==
    ~(pc = "done" /\ Chunks # {} /\ Survivors = {})

\* C2: a candidate whose observed window freq_arr[ll:ul] is empty does not
\* make chunk construction fail; its chunk is in the chunk list and is
\* flagged once the cleaning loop is over.
C2_EmptyWindowFlagged ==
    pc \in {"clean", "weight", "resample", "accumulate", "trim", "done", "raised"} =>
        \A c \in Candidates :
            EmptyWindow(c) =>
                /\ raised # "IndexError"
                /\ c \in Chunks
                /\ AfterCleaning => obs_chunks[c].flag

\* C3: every chunk whose id is in drops is flagged once the loop has passed
\* it, whatever blank_lines, flag_lines, flag_sigma and blank_keep_range are,
\* and neither the blanking pass nor the flag pass has run on it.
C3_DroppedAlwaysFlagged ==
    \A i \in Chunks :
        (Cleaned(i) /\ obs_chunks[i].id \in loc.drops) =>
            obs_chunks[i].flag /\ ran[i].passes = {}

\* A dropped chunk has been passed with both passes enabled, and it holds a
\* sample the blanking pass would have blanked.
C3_Witness ==
    \E i \in Chunks :
        /\ Cleaned(i) /\ obs_chunks[i].id \in loc.drops /\ obs_chunks[i].flag
        /\ loc.blank_lines /\ loc.flag_lines
        /\ \E k \in DOMAIN int_obs_of(int_arr, obs_chunks[i]) :
              Exceeds(int_obs_of(int_arr, obs_chunks[i])[k], loc.flag_sigma,
                      obs_chunks[i].rms)

\* The i-th chunk, counted from 1, of those that are not flagged.
SurvivorAt(y) ==
    CHOOSE i \in Survivors : Cardinality({j \in Survivors : j < i}) = y - 1

\* C4: a flagged chunk gets no weight, no weighted and no resampled arrays,
\* and no row in the lists the sums and rms_arr are built from, which hold
\* exactly the unflagged chunks in order; the returned chunk list still has
\* one chunk per candidate, in candidate order, flagged ones included.
C4_FlaggedExcluded ==
    /\ \A i \in Chunks :
          obs_chunks[i].flag =>
              /\ obs_chunks[i].weight = None
              /\ obs_chunks[i].int_weighted = None
              /\ obs_chunks[i].int_sim_weighted = None
              /\ obs_chunks[i].int_samp = None
              /\ obs_chunks[i].int_sim_samp = None
    /\ pc \in {"trim", "done"} =>
          /\ Len(interped_ints) = Cardinality(Survivors)
          /\ Len(interped_rms) = Cardinality(Survivors)
          /\ Len(interped_sim_ints) = Cardinality(Survivors)
          /\ \A y \in 1..Cardinality(Survivors) :
                /\ interped_ints[y] = obs_chunks[SurvivorAt(y)].int_samp[1]
                /\ interped_rms[y] = obs_chunks[SurvivorAt(y)].rms
                /\ interped_sim_ints[y] = obs_chunks[SurvivorAt(y)].int_sim_samp[1]
    /\ pc = "done" =>
          /\ Chunks = Candidates
          /\ \A i \in Chunks :
                /\ obs_chunks[i].id = i
                /\ <<obs_chunks[i].x, obs_chunks[i].y>> = ObsWindow(i)
                /\ <<obs_chunks[i].a, obs_chunks[i].b>> = SimWindow(i)
                /\ obs_chunks[i].peak_int = peak_ints[i]

\* The call has returned a chunk list with a flagged and an unflagged chunk.
C4_Witness ==
    /\ pc = "done"
    /\ \E i, j \in Chunks : obs_chunks[i].flag /\ ~obs_chunks[j].flag

\* C5: v_res is optional on its own key: the step of the grid is the supplied
\* v_res when v_res is supplied and 0.1*dV when it is not, whether or not
\* drops is supplied.
C5_VResOwnKey ==
    LET v_res == IF Has("v_res") THEN params.v_res ELSE Norm(params.dV, 10)
    IN  /\ (pc # "unpack" /\ (Required \ {"selection"}) \subseteq params.keys) =>
               loc.v_res = v_res
        /\ pc \in {"accumulate", "trim", "done"} =>
               velocity_avg = arange(F(-params.vel_width), F(params.vel_width), v_res)

ConfigError ==
    \/ ~(Required \subseteq params.keys)
    \/ params.selection \notin {"peaks", "lines"}
    \/ params.selection = "lines" /\ ~Has("dV_ext")

\* C6: with a required option absent, a selection other than 'peaks' or
\* 'lines', or 'lines' without dV_ext, the call fails before any array work:
\* no input array has been read, no peak looked for, no chunk constructed.
C6_FailsBeforeArrayWork ==
    ConfigError => trace = {} /\ pc \in {"unpack", "select", "raised"}

\* The step of the loop on the chunk at pos runs the blanking pass.
BlankStep ==
    /\ pc = "clean"
    /\ loc.blank_lines
    /\ ~obs_chunks[pos].flag
    /\ Len0(freq_obs_of(obs_chunks[pos])) # 0
    /\ ~Dropped(obs_chunks[pos])

\* C7: the blanking pass on a chunk leaves every sample of int_obs in
\* [ll_obs, ul_obs) and of int_sim in [ll_sim, ul_sim) as it was before the
\* pass, whatever its amplitude.
C7_ProtectedRangeKept ==
    [][BlankStep =>
         LET c == obs_chunks[pos]
         IN  /\ \A k \in ProtectedObs(c) :
                   int_obs_of(int_arr', c)[k] = int_obs_of(int_arr, c)[k]
             /\ \A k \in ProtectedSim(c) :
                   int_sim_of(int_sim', c)[k] = int_sim_of(int_sim, c)[k]]_vars

\* The blanking pass has just run on a chunk that blanked a sample and kept a
\* protected sample above the threshold the pass used.
C7_Witness ==
    \E i \in Chunks :
        /\ pos = i + 1
        /\ "blank" \in ran[i].passes
        /\ \E k \in DOMAIN int_obs_of(int_arr, obs_chunks[i]) :
              IsNaN(int_obs_of(int_arr, obs_chunks[i])[k])
        /\ \E k \in ProtectedObs(obs_chunks[i]) :
              Exceeds(int_obs_of(int_arr, obs_chunks[i])[k], loc.flag_sigma, ran[i].rms)

\* C8: cleaning the chunk at pos changes no sample of int_obs of any other
\* chunk, overlapping windows included.  (int_sim is written only through the
\* slices of lines 209-212, which the imported lookups choose; the statement
\* about int_obs is the part the code of velocity_stack decides on its own.)
C8_NoCrossChunkMutation ==
    [][pc = "clean" =>
         \A j \in Chunks \ {pos} :
            int_obs_of(int_arr', obs_chunks[j]) = int_obs_of(int_arr, obs_chunks[j])]_vars

\* C9: with blank_lines and flag_lines both enabled, a chunk the flag pass has
\* just flagged has a sample inside the protected range [ll_obs, ul_obs) that
\* exceeds flag_sigma * rms, rms as recomputed after blanking.
C9_FlaggedOnlyForCore ==
    \A i \in Chunks :
        (pos = i + 1 /\ ran[i].passes = {"blank", "flag"} /\ obs_chunks[i].flag) =>
            \E k \in ProtectedObs(obs_chunks[i]) :
                LET v == int_obs_of(int_arr, obs_chunks[i])[k]
                IN  FGt(v, Zero) /\ Exceeds(v, loc.flag_sigma, obs_chunks[i].rms)

\* The unflagged chunks whose int_samp is present at grid index x.
Contributors(x) ==
    {i \in Survivors : ~IsNaN(obs_chunks[i].int_samp[1][x])}

RECURSIVE SumRms(_)
SumRms(S) ==
    IF S = {} THEN Zero
    ELSE LET i == CHOOSE i \in S : TRUE
         IN  FAdd(obs_chunks[i].rms, SumRms(S \ {i}))

RECURSIVE SumSamp(_, _)
SumSamp(S, x) ==
    IF S = {} THEN Zero
    ELSE LET i == CHOOSE i \in S : TRUE
         IN  FAdd(obs_chunks[i].int_samp[1][x], SumSamp(S \ {i}, x))

\* C10: before trimming and normalisation, rms_arr[x] is the sum of rms^2 over
\* exactly the unflagged chunks whose int_samp[x] is present and int_avg[x] is
\* the sum of their int_samp[x] divided by rms_arr[x]; chunks with rms 1,
\* peak_int 2 and rms 2, peak_int 1 get the weights 1 and 0.125 and, where
\* both are present, the denominator 5.
C10_NoiseWeightedAverage ==
    pc \in {"trim", "done"} =>
        /\ \A x \in DOMAIN velocity_avg :
              /\ rms_arr[x] = SumRms(Contributors(x))
              /\ int_avg[x] = FDiv(SumSamp(Contributors(x), x), rms_arr[x])
        /\ \A i, j \in Survivors :
              ( /\ obs_chunks[i].rms = F(1) /\ obs_chunks[i].peak_int = F(2)
                /\ obs_chunks[j].rms = F(4) /\ obs_chunks[j].peak_int = F(1)
                /\ MaxOf(peak_ints) = F(2) ) =>
                  /\ obs_chunks[i].weight = Some(F(1))
                  /\ obs_chunks[j].weight = Some(Norm(1, 8))
                  /\ \A x \in DOMAIN velocity_avg :
                        Contributors(x) = {i, j} => rms_arr[x] = F(5)

\* Two unflagged chunks cover the grid differently: at one index both are
\* present, at another only one of them.
C10_Witness ==
    /\ pc = "trim"
    /\ \E i, j \in Survivors :
          /\ i # j
          /\ \E x \in DOMAIN velocity_avg : Contributors(x) = {i, j}
          /\ \E x \in DOMAIN velocity_avg : Contributors(x) = {i}

====
